---- MODULE Spec2Model ----
(***************************************************************************)
(* Model of kitty's LineBuf (src/kitty/line-buf.c): a fixed-capacity grid  *)
(* of terminal cells addressed through the permutation array line_map,     *)
(* with a parallel continued_map, a scratch array and one shared live Line *)
(* view.                                                                   *)
(***************************************************************************)
EXTENDS Integers, Sequences, FiniteSets, TLC

\* ---------------------------------------------------------------- bounds
\* Largest buffer of the region-operator specification.
MaxRows == 3
MaxCols == 1
\* Largest buffer of the lifecycle specification.
LifeRows == 2

\* ------------------------------------------------------------- constants
\* Limits checked by new().
MAX_XNUM == 5000
MAX_YNUM == 50000
\* data-types.h: layout of the attribute byte that sits above the character
\* code in a char_type (bits ATTRS_SHIFT and up of the word).
WIDTH_MASK == 3
DECORATION_SHIFT == 2
STRIKE_SHIFT == 7
\* The character code of a blank (' ').
SPACE == 32

Min(a, b) == IF a < b THEN a ELSE b

\* --------------------------------------------------------------- cells
\* One cell: the char_type word split into its character code (ch) and its
\* attribute byte (attrs: width in bits 0-1, decoration in bits 2-3, bold,
\* italic, reverse, strike in bits 4-7), and the four other column arrays.
Cell(ch, attrs, fg, bg, dfg, cc) ==
    [ch |-> ch, attrs |-> attrs, fg_colors |-> fg, bg_colors |-> bg,
     decoration_fg |-> dfg, combining_chars |-> cc]

\* A cell of zeroed memory (calloc / memset 0).
ZeroCell == Cell(0, 0, 0, 0, 0, 0)

\* (1 << ATTRS_SHIFT) | ch stored in the chars array of a cell.
set_char_word(c, ch) == [c EXCEPT !.ch = ch, !.attrs = 1]

\* A blank cell holding ch: width 1, no attributes, no colors.
BlankCell(ch) == Cell(ch, 1, 0, 0, 0, 0)

\* A row of n cells (index 0 .. n-1) all equal to c.
RowOf(n, c) == [x \in 0 .. n - 1 |-> c]

\* ---------------------------------------------------------------- Line
\* The Line object: a view of one row.  slot is the physical row its five
\* column pointers point at (-1: not pointing into a LineBuf), cells is its
\* own storage when it is a detached line.
NoLine == [xnum |-> 0, ynum |-> 0, continued |-> FALSE, slot |-> -1, cells |-> <<>>]

\* alloc_line(): a fresh Line object with no storage.
alloc_line == NoLine

\* ------------------------------------------------------------- LineBuf
NoGrid ==
    [xnum |-> 0, ynum |-> 0, line_map |-> <<>>, continued_map |-> <<>>,
     scratch |-> <<>>, buf |-> <<>>, line |-> NoLine]

Rows(s) == 0 .. s.ynum - 1
Cols(s) == 0 .. s.xnum - 1

\* clear_chars_to(linebuf, y, ch): physical row y gets (1 << ATTRS_SHIFT) | ch
\* in every chars entry; the other four arrays are not written.
clear_chars_to(s, y, ch) ==
    [s EXCEPT !.buf[y] = [x \in Cols(s) |-> set_char_word(s.buf[y][x], ch)]]

RECURSIVE clear_loop(_, _, _)
clear_loop(s, i, ch) ==
    IF i < s.ynum
    THEN clear_loop([clear_chars_to(s, i, ch) EXCEPT !.line_map[i] = i], i + 1, ch)
    ELSE s

\* linebuf_clear without the memset of the arena: only the characters are
\* reset, colors and combining characters stay.
linebuf_clear_keep_colors(s, ch) ==
    clear_loop([s EXCEPT !.continued_map = [y \in Rows(s) |-> FALSE]], 0, ch)

\* linebuf_clear(self, ch)
linebuf_clear(s, ch) ==
    LET zeroed == [s EXCEPT !.buf = [y \in Rows(s) |-> RowOf(s.xnum, ZeroCell)],
                            !.continued_map = [y \in Rows(s) |-> FALSE]]
    IN  clear_loop(zeroed, 0, ch)

\* ------------------------------------------------------------ new/dealloc
\* The heap blocks of one LineBuf: the object itself and what new() allocates.
Blocks == {"self", "buf", "line_map", "scratch", "continued_map", "line"}

\* Heap bookkeeping: which pointer fields of the object are non-NULL, and
\* how many times each block has been released.
NoHeap == [ptr |-> [b \in Blocks |-> FALSE], released |-> [b \in Blocks |-> 0]]

\* PyMem_Free(self->field): releases the block unless the pointer is NULL; the
\* pointer itself is left as it was.
PyMem_Free(h, b) == IF h.ptr[b] THEN [h EXCEPT !.released[b] = @ + 1] ELSE h

\* Py_CLEAR(self->line): sets the field to NULL and drops the only reference.
Py_CLEAR_line(h) ==
    IF h.ptr["line"]
    THEN [h EXCEPT !.ptr["line"] = FALSE, !.released["line"] = @ + 1]
    ELSE h

\* dealloc(self): the type's tp_dealloc, run when the last reference goes.
dealloc(h) ==
    LET h1 == PyMem_Free(h, "buf")
        h2 == PyMem_Free(h1, "line_map")
        h3 == PyMem_Free(h2, "continued_map")
        h4 == PyMem_Free(h3, "scratch")
        h5 == Py_CLEAR_line(h4)
    IN  [h5 EXCEPT !.ptr["self"] = FALSE, !.released["self"] = @ + 1]

\* The cleanup in new() when an allocation failed: three PyMem_Free, one
\* Py_CLEAR of the line, then Py_CLEAR(self), which drops the only reference
\* to the object and so runs dealloc on it.
new_cleanup(h) ==
    LET h1 == PyMem_Free(h, "buf")
        h2 == PyMem_Free(h1, "line_map")
        h3 == PyMem_Free(h2, "continued_map")
        h4 == Py_CLEAR_line(h3)
    IN  dealloc(h4)

RECURSIVE new_loop(_, _)
new_loop(s, i) ==
    IF i < s.ynum
    THEN new_loop(clear_chars_to([s EXCEPT !.line_map[i] = i], i, SPACE), i + 1)
    ELSE s

\* new(type, (ynum, xnum)): fails is the set of blocks whose allocation
\* fails.  The result holds the object (NoGrid for NULL), the exception set
\* ("" for none) and the heap.
new(ynum, xnum, fails) ==
    IF xnum > MAX_XNUM \/ ynum > MAX_YNUM
    THEN [obj |-> NoGrid, err |-> "ValueError", heap |-> NoHeap]
    ELSE IF xnum * ynum = 0
    THEN [obj |-> NoGrid, err |-> "ValueError", heap |-> NoHeap]
    ELSE IF "self" \in fails
    THEN [obj |-> NoGrid, err |-> "MemoryError", heap |-> NoHeap]
    ELSE
      LET h == [NoHeap EXCEPT !.ptr = [b \in Blocks |-> b \notin fails]]
          rows == 0 .. ynum - 1
          fresh == [xnum |-> xnum, ynum |-> ynum,
                    line_map |-> [y \in rows |-> 0],
                    continued_map |-> [y \in rows |-> FALSE],
                    scratch |-> [y \in rows |-> 0],
                    buf |-> [y \in rows |-> RowOf(xnum, ZeroCell)],
                    line |-> [alloc_line EXCEPT !.xnum = xnum]]
      IN  IF \E b \in Blocks : ~h.ptr[b]
          THEN [obj |-> NoGrid, err |-> "MemoryError", heap |-> new_cleanup(h)]
          ELSE [obj |-> new_loop(fresh, 0), err |-> "", heap |-> h]

\* ------------------------------------------------------------ line views
\* linebuf_init_line(self, idx): rebinds the shared live view.
linebuf_init_line(s, idx) ==
    [s EXCEPT !.line = [xnum |-> s.xnum, ynum |-> idx,
                        continued |-> s.continued_map[idx],
                        slot |-> s.line_map[idx], cells |-> <<>>]]

\* line(self, y)
line(s, idx) ==
    IF idx >= s.ynum THEN [obj |-> s, err |-> "IndexError"]
    ELSE [obj |-> linebuf_init_line(s, idx), err |-> ""]

\* CLEAR_LINE(l, xnum) on the Line pointing at physical row slot.
CLEAR_LINE(s, slot) == [s EXCEPT !.buf[slot] = RowOf(s.xnum, BlankCell(SPACE))]

\* linebuf_clear_line(self, y)
linebuf_clear_line(s, y) ==
    [CLEAR_LINE(s, s.line_map[y]) EXCEPT !.continued_map[y] = FALSE]

\* clear_line(self, y)
clear_line(s, y) ==
    IF y >= s.ynum THEN [obj |-> s, err |-> "ValueError"]
    ELSE [obj |-> linebuf_clear_line(s, y), err |-> ""]

\* set_continued(self, (y, val))
set_continued(s, y, val) ==
    IF y >= s.ynum THEN [obj |-> s, err |-> "ValueError"]
    ELSE [obj |-> [s EXCEPT !.continued_map[y] = val], err |-> ""]

\* ------------------------------------------------------- region operators
RECURSIVE index_loop(_, _, _)
index_loop(s, i, bottom) ==
    IF i < bottom
    THEN index_loop([s EXCEPT !.line_map[i] = s.line_map[i + 1],
                              !.continued_map[i] = s.continued_map[i + 1]],
                    i + 1, bottom)
    ELSE s

\* linebuf_index(self, top, bottom)
linebuf_index(s, top, bottom) ==
    IF top >= s.ynum - 1 \/ bottom >= s.ynum \/ bottom <= top THEN s
    ELSE LET old_top == s.line_map[top]
             old_cont == s.continued_map[top]
             t == index_loop(s, top, bottom)
         IN  [t EXCEPT !.line_map[bottom] = old_top,
                       !.continued_map[bottom] = old_cont]

RECURSIVE reverse_index_loop(_, _, _)
reverse_index_loop(s, i, top) ==
    IF i > top
    THEN reverse_index_loop([s EXCEPT !.line_map[i] = s.line_map[i - 1],
                                      !.continued_map[i] = s.continued_map[i - 1]],
                            i - 1, top)
    ELSE s

\* linebuf_reverse_index that forgets the flag of the row it moves to the top.
linebuf_reverse_index_drop_flag(s, top, bottom) ==
    IF top >= s.ynum - 1 \/ bottom >= s.ynum \/ bottom <= top THEN s
    ELSE LET old_bottom == s.line_map[bottom]
             t == reverse_index_loop(s, bottom, top)
         IN  [t EXCEPT !.line_map[top] = old_bottom,
                       !.continued_map[top] = FALSE]

\* linebuf_reverse_index(self, top, bottom)
linebuf_reverse_index(s, top, bottom) ==
    IF top >= s.ynum - 1 \/ bottom >= s.ynum \/ bottom <= top THEN s
    ELSE LET old_bottom == s.line_map[bottom]
             old_cont == s.continued_map[bottom]
             t == reverse_index_loop(s, bottom, top)
         IN  [t EXCEPT !.line_map[top] = old_bottom,
                       !.continued_map[top] = old_cont]

\* for (i = from; i < to; i++) scratch[i] = line_map[i]
RECURSIVE save_loop(_, _, _)
save_loop(s, i, to) ==
    IF i < to
    THEN save_loop([s EXCEPT !.scratch[i] = s.line_map[i]], i + 1, to)
    ELSE s

\* The shift loop of insert moving each row down by one instead of by num.
RECURSIVE insert_shift_loop_by_one(_, _, _, _)
insert_shift_loop_by_one(s, i, y, num) ==
    IF i >= y + num
    THEN insert_shift_loop_by_one([s EXCEPT !.line_map[i] = s.line_map[i - 1],
                                            !.continued_map[i] = s.continued_map[i - 1]],
                                  i - 1, y, num)
    ELSE s

\* for (i = ylimit - 1; i >= y + num; i--) { shift row i - num down to i }
RECURSIVE insert_shift_loop(_, _, _, _)
insert_shift_loop(s, i, y, num) ==
    IF i >= y + num
    THEN insert_shift_loop([s EXCEPT !.line_map[i] = s.line_map[i - num],
                                     !.continued_map[i] = s.continued_map[i - num]],
                           i - 1, y, num)
    ELSE s

\* The loop that puts the saved slots back, left out.
restore_loop_skipped(s, i, num, to, from) == s

\* for (i = 0; i < num; i++) line_map[to + i] = scratch[from + i]
RECURSIVE restore_loop(_, _, _, _, _)
restore_loop(s, i, num, to, from) ==
    IF i < num
    THEN restore_loop([s EXCEPT !.line_map[to + i] = s.scratch[from + i]],
                      i + 1, num, to, from)
    ELSE s

\* for (i = from; i < to; i++) { CLEAR_LINE(row line_map[i]); continued_map[i] = 0 }
RECURSIVE blank_loop(_, _, _)
blank_loop(s, i, to) ==
    IF i < to
    THEN blank_loop([CLEAR_LINE(s, s.line_map[i]) EXCEPT !.continued_map[i] = FALSE],
                    i + 1, to)
    ELSE s

\* Every read of scratch follows a write of the same entry in the same call,
\* so what a call leaves in scratch is never read again: the state between
\* calls does not keep it.
forget_scratch(s, t) == [t EXCEPT !.scratch = s.scratch]

\* linebuf_insert_lines without the reset of continued_map[y + num].
linebuf_insert_lines_keep_flag(s, num0, y, bottom) ==
    IF y >= s.ynum \/ y > bottom \/ bottom >= s.ynum THEN s
    ELSE LET ylimit == bottom + 1
             num == Min(ylimit - y, num0)
         IN  IF num > 0
             THEN LET s1 == save_loop(s, ylimit - num, ylimit)
                      s2 == insert_shift_loop(s1, ylimit - 1, y, num)
                      s4 == restore_loop(s2, 0, num, y, ylimit - num)
                  IN  forget_scratch(s, blank_loop(s4, y, y + num))
             ELSE s

\* linebuf_insert_lines(self, num, y, bottom)
linebuf_insert_lines(s, num0, y, bottom) ==
    IF y >= s.ynum \/ y > bottom \/ bottom >= s.ynum THEN s
    ELSE LET ylimit == bottom + 1
             num == Min(ylimit - y, num0)
         IN  IF num > 0
             THEN LET s1 == save_loop(s, ylimit - num, ylimit)
                      s2 == insert_shift_loop(s1, ylimit - 1, y, num)
                      s3 == IF y + num < s.ynum
                            THEN [s2 EXCEPT !.continued_map[y + num] = FALSE]
                            ELSE s2
                      s4 == restore_loop(s3, 0, num, y, ylimit - num)
                  IN  forget_scratch(s, blank_loop(s4, y, y + num))
             ELSE s

\* The shift loop of delete moving each row up by one instead of by num.
RECURSIVE delete_shift_loop_by_one(_, _, _, _)
delete_shift_loop_by_one(s, i, ylimit, num) ==
    IF i < ylimit /\ i + num < s.ynum
    THEN delete_shift_loop_by_one([s EXCEPT !.line_map[i] = s.line_map[i + 1],
                                            !.continued_map[i] = s.continued_map[i + 1]],
                                  i + 1, ylimit, num)
    ELSE s

\* for (i = y; i < ylimit && i + num < ynum; i++) { shift row i + num up to i }
RECURSIVE delete_shift_loop(_, _, _, _)
delete_shift_loop(s, i, ylimit, num) ==
    IF i < ylimit /\ i + num < s.ynum
    THEN delete_shift_loop([s EXCEPT !.line_map[i] = s.line_map[i + num],
                                     !.continued_map[i] = s.continued_map[i + num]],
                           i + 1, ylimit, num)
    ELSE s

\* MIN(bottom + 1 - y, num) on unsigned operands: when y > bottom + 1 the
\* difference wraps to a value just below 2^32, above every num used here.
delete_num(num0, y, bottom) ==
    IF bottom + 1 >= y THEN Min(bottom + 1 - y, num0) ELSE num0

\* linebuf_delete_lines without the num < 1 test.
linebuf_delete_lines_any_count(s, num0, y, bottom) ==
    LET ylimit == bottom + 1
        num == delete_num(num0, y, bottom)
    IN  IF y >= s.ynum \/ y > bottom \/ bottom >= s.ynum THEN s
        ELSE LET s1 == save_loop(s, y, y + num)
                 s2 == delete_shift_loop(s1, y, ylimit, num)
                 s3 == [s2 EXCEPT !.continued_map[y] = FALSE]
                 s4 == restore_loop(s3, 0, num, ylimit - num, y)
             IN  forget_scratch(s, blank_loop(s4, ylimit - num, ylimit))

\* linebuf_delete_lines that puts the freed slots back without clearing them.
linebuf_delete_lines_no_clear(s, num0, y, bottom) ==
    LET ylimit == bottom + 1
        num == delete_num(num0, y, bottom)
    IN  IF y >= s.ynum \/ y > bottom \/ bottom >= s.ynum \/ num < 1 THEN s
        ELSE LET s1 == save_loop(s, y, y + num)
                 s2 == delete_shift_loop(s1, y, ylimit, num)
                 s3 == [s2 EXCEPT !.continued_map[y] = FALSE]
             IN  forget_scratch(s, restore_loop(s3, 0, num, ylimit - num, y))

\* linebuf_delete_lines(self, num, y, bottom)
linebuf_delete_lines(s, num0, y, bottom) ==
    LET ylimit == bottom + 1
        num == delete_num(num0, y, bottom)
    IN  IF y >= s.ynum \/ y > bottom \/ bottom >= s.ynum \/ num < 1 THEN s
        ELSE LET s1 == save_loop(s, y, y + num)
                 s2 == delete_shift_loop(s1, y, ylimit, num)
                 s3 == [s2 EXCEPT !.continued_map[y] = FALSE]
                 s4 == restore_loop(s3, 0, num, ylimit - num, y)
             IN  forget_scratch(s, blank_loop(s4, ylimit - num, ylimit))

\* ------------------------------------------------------- bulk attributes
\* SET_ATTRIBUTE(chars, shift, val) on one cell: mask is 3 for the two-bit
\* decoration field and 1 otherwise; the field at shift is replaced by
\* val & mask.
SET_ATTRIBUTE(c, shift, val) ==
    LET mask == IF shift = DECORATION_SHIFT THEN 3 ELSE 1
        unit == 2 ^ shift
        old == (c.attrs \div unit) % (mask + 1)
    IN  [c EXCEPT !.attrs = c.attrs - old * unit + (val % (mask + 1)) * unit]

\* linebuf_set_attribute(self, shift, val)
linebuf_set_attribute(s, shift, val) ==
    [s EXCEPT !.buf = [y \in Rows(s) |->
                         [x \in Cols(s) |-> SET_ATTRIBUTE(s.buf[y][x], shift, val)]]]

\* set_attribute that applies the attribute before it tests the shift.
set_attribute_check_late(s, shift, val) ==
    [obj |-> linebuf_set_attribute(s, shift, val),
     err |-> IF shift < DECORATION_SHIFT \/ shift > STRIKE_SHIFT
             THEN "ValueError" ELSE ""]

\* set_attribute(self, (shift, val))
set_attribute(s, shift, val) ==
    IF shift < DECORATION_SHIFT \/ shift > STRIKE_SHIFT
    THEN [obj |-> s, err |-> "ValueError"]
    ELSE [obj |-> linebuf_set_attribute(s, shift, val), err |-> ""]

\* ----------------------------------------------------------- row copies
\* COPY_LINE(src, dest) where src points at physical row slot of s: the five
\* column arrays are copied element by element into dest's own storage.
COPY_LINE(s, slot, dest) == [dest EXCEPT !.cells = s.buf[slot]]

\* create_line_copy_inner copying physical row y instead of row line_map[y].
create_line_copy_inner_unmapped(s, y) ==
    LET fresh == [alloc_line EXCEPT !.xnum = s.xnum, !.ynum = y,
                                    !.continued = s.continued_map[y]]
    IN  COPY_LINE(s, y, fresh)

\* create_line_copy_inner(self, y) with every allocation succeeding.
create_line_copy_inner(s, y) ==
    LET fresh == [alloc_line EXCEPT !.xnum = s.xnum, !.ynum = y,
                                    !.continued = s.continued_map[y]]
    IN  COPY_LINE(s, s.line_map[y], fresh)

\* create_line_copy(self, ynum)
create_line_copy(s, y) ==
    IF y >= s.ynum THEN [obj |-> s, err |-> "ValueError", value |-> NoLine]
    ELSE [obj |-> s, err |-> "", value |-> create_line_copy_inner(s, y)]

\* A detached Line with blank storage of n cells, as handed to copy_line_to.
DestLine(n) == [alloc_line EXCEPT !.xnum = n, !.cells = RowOf(n, BlankCell(SPACE))]

\* The loop of copy_old pairing the rows from the top instead of the bottom.
RECURSIVE copy_old_loop_from_top(_, _, _)
copy_old_loop_from_top(s, other, i) ==
    IF i < Min(s.ynum, other.ynum)
    THEN copy_old_loop_from_top(
           [s EXCEPT !.continued_map[i] = other.continued_map[i],
                     !.buf[s.line_map[i]] = other.buf[other.line_map[i]]],
           other, i + 1)
    ELSE s

\* copy_old(self, other): the result holds both buffers.
RECURSIVE copy_old_loop(_, _, _)
copy_old_loop(s, other, i) ==
    IF i < Min(s.ynum, other.ynum)
    THEN LET sy == s.ynum - 1 - i
             oy == other.ynum - 1 - i
         IN  copy_old_loop(
               [s EXCEPT !.continued_map[sy] = other.continued_map[oy],
                         !.buf[s.line_map[sy]] = other.buf[other.line_map[oy]]],
               other, i + 1)
    ELSE s

copy_old(s, other) ==
    IF other.xnum # s.xnum
    THEN [obj |-> s, err |-> "ValueError", other |-> other]
    ELSE [obj |-> copy_old_loop(s, other, 0), err |-> "", other |-> other]

\* copy_line_to(self, (y, dest)): there is no test of y against ynum.  For
\* y >= ynum the reads of continued_map[y] and line_map[y] are out of bounds:
\* the flag is whatever byte lies there, the row copied is whatever row the
\* stray map entry selects (a row of the arena, or memory outside it, shown
\* as zeroed cells), or the process faults.  The result is the set of
\* possible outcomes.
copy_line_to(s, y, dest) ==
    LET d0 == [dest EXCEPT !.xnum = s.xnum, !.ynum = y]
    IN  IF y < s.ynum
        THEN {[obj |-> s, err |-> "",
               value |-> COPY_LINE(s, s.line_map[y],
                                   [d0 EXCEPT !.continued = s.continued_map[y]])]}
        ELSE {[obj |-> s, err |-> "",
               value |-> COPY_LINE(s, r, [d0 EXCEPT !.continued = c])] :
                 r \in Rows(s), c \in BOOLEAN}
             \cup {[obj |-> s, err |-> "",
                    value |-> [d0 EXCEPT !.continued = c,
                                         !.cells = RowOf(s.xnum, ZeroCell)]] :
                     c \in BOOLEAN}
             \cup {[obj |-> s, err |-> "SIGSEGV", value |-> d0]}

\* -------------------------------------------------------------- rewrap
\* rewrap_inner (rewrap.h), after the contract of the re-flow: the logical
\* lines of the first limit logical rows of src, each a maximal run of rows
\* joined by continuation flags, without the trailing blanks of the line.
TrimRight(cells) ==
    LET keep == {n \in 0 .. Len(cells) :
                   \A k \in n + 1 .. Len(cells) : cells[k].ch = SPACE}
    IN  SubSeq(cells, 1, CHOOSE n \in keep : \A m \in keep : n <= m)

\* The cells of logical row y of s as a sequence.
RowSeq(s, y) == [k \in 1 .. s.xnum |-> s.buf[s.line_map[y]][k - 1]]

\* lines: the logical lines closed so far; cur: the cells of the open one.
RECURSIVE src_lines(_, _, _, _, _)
src_lines(s, y, limit, lines, cur) ==
    IF y >= limit THEN Append(lines, TrimRight(cur))
    ELSE IF y > 0 /\ ~s.continued_map[y]
    THEN src_lines(s, y + 1, limit, Append(lines, TrimRight(cur)), RowSeq(s, y))
    ELSE src_lines(s, y + 1, limit, lines, cur \o RowSeq(s, y))

\* One logical line cut at multiples of w: rows of w cells, the last one
\* padded with blanks; every row but the first is a continuation.
RECURSIVE split_line(_, _, _)
split_line(cells, w, first) ==
    IF Len(cells) <= w
    THEN <<[cells |-> [x \in 0 .. w - 1 |->
                         IF x < Len(cells) THEN cells[x + 1] ELSE BlankCell(SPACE)],
            continued |-> ~first]>>
    ELSE <<[cells |-> [x \in 0 .. w - 1 |-> cells[x + 1]], continued |-> ~first]>>
         \o split_line(SubSeq(cells, w + 1, Len(cells)), w, FALSE)

RECURSIVE split_lines(_, _, _)
split_lines(lines, k, w) ==
    IF k > Len(lines) THEN <<>>
    ELSE split_line(lines[k], w, TRUE) \o split_lines(lines, k + 1, w)

\* Rows rows[from + 1 ..] written into the logical rows of dest from the top.
RECURSIVE write_dest(_, _, _, _)
write_dest(dest, rows, from, y) ==
    IF from + y >= Len(rows) \/ y >= dest.ynum THEN dest
    ELSE write_dest([dest EXCEPT !.buf[dest.line_map[y]] = rows[from + y + 1].cells,
                                 !.continued_map[y] = rows[from + y + 1].continued],
                    rows, from, y + 1)

\* rewrap_inner(src, dest, limit, historybuf): the re-flowed rows fill dest
\* from the top; the rows that do not fit are pushed to the history sink,
\* oldest first, and dest keeps the last ones.  cursor is the row of dest
\* the last re-flowed row was written to.
rewrap_inner(src, dest, limit) ==
    LET rows == split_lines(src_lines(src, 0, limit, <<>>, <<>>), 1, dest.xnum)
        over == IF Len(rows) > dest.ynum THEN Len(rows) - dest.ynum ELSE 0
    IN  [other |-> write_dest(dest, rows, over, 0),
         pushed |-> SubSeq(rows, 1, over),
         cursor |-> Len(rows) - over - 1]

\* The test of the scan on one cell, comparing with NUL instead of a space.
has_text_nul(s, first) == \E i \in Cols(s) : s.buf[first][i].ch # 0

\* for (i < xnum) if ((chars[i] & CHAR_MASK) != 32) is_empty = false, on the
\* row at arena offset xnum * first.
has_text(s, first) == \E i \in Cols(s) : s.buf[first][i].ch # SPACE

\* for (first = ynum - 1; true; first--) { ...; if (!is_empty || !first) break; }
RECURSIVE scan_loop(_, _)
scan_loop(s, first) ==
    IF has_text(s, first) \/ first = 0 THEN first ELSE scan_loop(s, first - 1)

\* The fast path without the copy of continued_map.
linebuf_rewrap_no_flags(s, other) ==
    IF other.xnum = s.xnum /\ other.ynum = s.ynum
    THEN [other |-> [other EXCEPT !.line_map = s.line_map, !.buf = s.buf],
          cursor_y |-> -1, pushed |-> <<>>, handed |-> 0]
    ELSE LET first == scan_loop(s, s.ynum - 1)
         IN  IF first = 0
             THEN [other |-> other, cursor_y |-> 0, pushed |-> <<>>, handed |-> 0]
             ELSE LET r == rewrap_inner(s, other, first + 1)
                  IN  [other |-> r.other, cursor_y |-> r.cursor,
                       pushed |-> r.pushed, handed |-> first + 1]

\* linebuf_rewrap(self, other, &cursor_y, historybuf) called with
\* cursor_y = -1: the destination afterwards, cursor_y afterwards, the rows
\* pushed to historybuf and the number of rows handed to rewrap_inner (0 when
\* it is not called).
linebuf_rewrap(s, other) ==
    IF other.xnum = s.xnum /\ other.ynum = s.ynum
    THEN [other |-> [other EXCEPT !.line_map = s.line_map,
                                  !.continued_map = s.continued_map,
                                  !.buf = s.buf],
          cursor_y |-> -1, pushed |-> <<>>, handed |-> 0]
    ELSE LET first == scan_loop(s, s.ynum - 1)
         IN  IF first = 0
             THEN [other |-> other, cursor_y |-> 0, pushed |-> <<>>, handed |-> 0]
             ELSE LET r == rewrap_inner(s, other, first + 1)
                  IN  [other |-> r.other, cursor_y |-> r.cursor,
                       pushed |-> r.pushed, handed |-> first + 1]

\* rewrap(self, (other, historybuf)): returns cursor_y.
rewrap(s, other) ==
    LET r == linebuf_rewrap(s, other)
    IN  [obj |-> s, err |-> "", other |-> r.other,
         value |-> [cursor_y |-> r.cursor_y, pushed |-> r.pushed, handed |-> r.handed]]

\* ------------------------------------------------------------- as_ansi
\* line_as_ansi(l, t, 5120) on the Line pointing at physical row slot (line.c):
\* the rendering of the row into the buffer t, kept here as the cells it
\* renders, and whether the length it returns leaves room in t for one more
\* code point (num < 5119).
line_as_ansi(s, slot, room) == [cells |-> s.buf[slot], room |-> room]

\* as_ansi without the one-row look-ahead: every row decides its newline by
\* its own flag.
RECURSIVE as_ansi_loop_own_flag(_, _, _, _, _)
as_ansi_loop_own_flag(s, i, fail, full, out) ==
    IF i < s.ynum
    THEN LET continued == s.continued_map[i]
             r == line_as_ansi(s, s.line_map[i], i # full)
             chunk == [cells |-> r.cells, newline |-> ~continued /\ r.room]
         IN  IF fail = <<"alloc", i>>
             THEN [obj |-> s, err |-> "MemoryError", value |-> out]
             ELSE IF fail = <<"emit", i>>
             THEN [obj |-> s, err |-> "CallbackError", value |-> Append(out, chunk)]
             ELSE as_ansi_loop_own_flag(s, i + 1, fail, full, Append(out, chunk))
    ELSE [obj |-> s, err |-> "", value |-> out]

\* as_ansi calling the callback again after it has failed.
RECURSIVE as_ansi_loop_ignore_failure(_, _, _, _, _)
as_ansi_loop_ignore_failure(s, i, fail, full, out) ==
    IF i < s.ynum
    THEN LET continued == IF i < s.ynum - 1 THEN s.continued_map[i + 1]
                          ELSE s.continued_map[i]
             r == line_as_ansi(s, s.line_map[i], i # full)
             chunk == [cells |-> r.cells, newline |-> ~continued /\ r.room]
         IN  IF fail = <<"alloc", i>>
             THEN [obj |-> s, err |-> "MemoryError", value |-> out]
             ELSE as_ansi_loop_ignore_failure(s, i + 1, fail, full, Append(out, chunk))
    ELSE [obj |-> s, err |-> IF fail[1] = "emit" /\ fail[2] < s.ynum
                             THEN "CallbackError" ELSE "",
          value |-> out]

\* The loop of as_ansi from row i on.  fail tells where a step fails, if any:
\* <<"alloc", k>> when PyUnicode_FromKindAndData returns NULL for row k,
\* <<"emit", k>> when the callback raises for row k.  full is the row whose
\* rendering leaves no room in t (-1: none).  out is the sequence of chunks the
\* callback has been called with, each a rendering and whether the newline
\* was appended to it.
RECURSIVE as_ansi_loop(_, _, _, _, _)
as_ansi_loop(s, i, fail, full, out) ==
    IF i < s.ynum
    THEN LET continued == IF i < s.ynum - 1 THEN s.continued_map[i + 1]
                          ELSE s.continued_map[i]
             r == line_as_ansi(s, s.line_map[i], i # full)
             chunk == [cells |-> r.cells, newline |-> ~continued /\ r.room]
         IN  IF fail = <<"alloc", i>>
             THEN [obj |-> s, err |-> "MemoryError", value |-> out]
             ELSE IF fail = <<"emit", i>>
             THEN [obj |-> s, err |-> "CallbackError", value |-> Append(out, chunk)]
             ELSE as_ansi_loop(s, i + 1, fail, full, Append(out, chunk))
    ELSE [obj |-> s, err |-> "", value |-> out]

\* as_ansi(self, callback)
as_ansi(s, fail, full) == as_ansi_loop(s, 0, fail, full, <<>>)

\* A write through the shared live view (Line's own methods): cell x of the
\* physical row the view points at gets character ch, width 1 and a
\* foreground color.
line_set_char(s, x, ch) ==
    [s EXCEPT !.buf[s.line.slot][x] = Cell(ch, 1, 1, 0, 0, 0)]

\* ------------------------------------------------------------- the state
VARIABLES
    self,   \* the LineBuf object (NoGrid: none)
    heap,   \* its heap blocks
    last,   \* the observed call: name, arguments, exception, other buffer
            \* (NoCall while no call is observed)
    pre,    \* self before the observed call
    orig,   \* self before the call before it, when a pair of calls with the
            \* same arguments is observed (else NoGrid)
    ret     \* the Line the observed call returned or filled (else NoLine)

vars == <<self, heap, last, pre, orig, ret>>

\* The fills of clear: the blank and a letter.
Fills == {SPACE, 69}
\* Arguments: every row index and count up to one past the largest buffer.
Args == 0 .. MaxRows
LifeArgs == 0 .. LifeRows
\* The buffers a run starts from: every row count, MaxCols columns.
Sizes == (1 .. MaxRows) \X {MaxCols}

\* Row y of s written through the live view, cell by cell.
RECURSIVE write_row(_, _)
write_row(s, x) ==
    IF x < s.xnum THEN write_row(line_set_char(s, x, 65), x + 1) ELSE s

RECURSIVE write_rows(_, _, _)
write_rows(s, y, to) ==
    IF y < to THEN write_rows(write_row(linebuf_init_line(s, y), 0), y + 1, to) ELSE s

\* The buffers handed to copy_old as other: one with every row written, and
\* one with only its first row written, its last row marked continued and
\* then scrolled, so that its line_map is not the identity.
OtherFull(yn, xn) == write_rows(new(yn, xn, {}).obj, 0, yn)

OtherScrolled(yn, xn) ==
    linebuf_index(set_continued(write_rows(new(yn, xn, {}).obj, 0, 1), yn - 1, TRUE).obj,
                  0, yn - 1)

OtherKinds == {"full", "scrolled"}

Other(kind, yn, xn) ==
    IF kind = "full" THEN OtherFull(yn, xn) ELSE OtherScrolled(yn, xn)

Others(s, maxrows) ==
    {Other(k, yn, xn) : k \in OtherKinds, yn \in 1 .. maxrows,
                        xn \in {s.xnum, s.xnum + 1}}

NoCall == [op |-> "", a |-> <<>>, err |-> "", other |-> NoGrid, after |-> ""]

\* Pairs of calls observed together.
Pairs == {<<"index", "reverse_index">>, <<"reverse_index", "index">>,
          <<"insert_lines", "delete_lines">>}

Follows(op, a) == last.after = "" /\ <<last.op, op>> \in Pairs /\ last.a = a

\* A call op(a) on self with result r.  A run observes its final call, or its
\* final pair of calls when they form one of Pairs with the same arguments;
\* the calls before are made unobserved.  An observed call is kept in last,
\* with the state before it in pre and what it returned in ret.  A fault ends
\* the process and is always observed.
CallH(op, a, r, other, value, h) ==
    /\ last = NoCall \/ Follows(op, a)
    /\ self' = r.obj
    /\ heap' = h
    /\ \/ /\ last' = [op |-> op, a |-> a, err |-> r.err, other |-> other,
                      after |-> IF Follows(op, a) THEN last.op ELSE ""]
          /\ pre' = self
          /\ orig' = IF Follows(op, a) THEN pre ELSE NoGrid
          /\ ret' = value
       \/ /\ last = NoCall
          /\ r.err # "SIGSEGV"
          /\ last' = NoCall
          /\ pre' = NoGrid
          /\ orig' = NoGrid
          /\ ret' = NoLine

Call(op, a, r, other, value) == CallH(op, a, r, other, value, heap)

Ok(s) == [obj |-> s, err |-> ""]

\* A process that has a buffer and whose run goes on.
Alive == self.ynum > 0 /\ last = NoCall

\* op can be called: the run goes on, or op completes an observed pair.
Ready(op) ==
    /\ self.ynum > 0
    /\ last = NoCall \/ (last.after = "" /\ <<last.op, op>> \in Pairs)

\* The values argument k of a call ranges over: all of A, or, for the second
\* call of a pair, the value the first call had.
Same(A, k) == IF last = NoCall THEN A ELSE {last.a[k]}

\* The state right after a successful new(ynum, xnum).
Init ==
    \E sz \in Sizes :
      /\ self = new(sz[1], sz[2], {}).obj
      /\ heap = new(sz[1], sz[2], {}).heap
      /\ last = NoCall
      /\ pre = NoGrid
      /\ orig = NoGrid
      /\ ret = NoLine

\* The state before any buffer exists.
InitNone ==
    /\ self = NoGrid
    /\ heap = NoHeap
    /\ last = NoCall
    /\ pre = NoGrid
    /\ orig = NoGrid
    /\ ret = NoLine

New ==
    /\ self.ynum = 0
    /\ last = NoCall
    /\ \E ynum \in (0 .. LifeRows) \cup {MAX_YNUM + 1},
          xnum \in {0, MaxCols, MAX_XNUM + 1},
          fails \in SUBSET Blocks :
         LET r == new(ynum, xnum, fails)
         IN  CallH("new", <<ynum, xnum, fails>>, r, NoGrid, NoLine, r.heap)

Dealloc ==
    /\ Alive
    /\ CallH("dealloc", <<>>, Ok(NoGrid), NoGrid, NoLine, dealloc(heap))

Clear(chs) ==
    /\ Alive
    /\ \E ch \in chs :
         Call("clear", <<ch>>, Ok(linebuf_clear(self, ch)), NoGrid, NoLine)

LineView ==
    /\ Alive
    /\ \E y \in LifeArgs : Call("line", <<y>>, line(self, y), NoGrid, NoLine)

CreateLineCopy(A) ==
    /\ Alive
    /\ \E y \in A :
         LET r == create_line_copy(self, y)
         IN  Call("create_line_copy", <<y>>, r, NoGrid, r.value)

CopyLineTo(A) ==
    /\ Alive
    /\ \E y \in A :
         \E r \in copy_line_to(self, y, DestLine(self.xnum)) :
            Call("copy_line_to", <<y>>, r, NoGrid, r.value)

SetAttribute ==
    /\ Alive
    /\ \E shift \in {DECORATION_SHIFT - 1, STRIKE_SHIFT, STRIKE_SHIFT + 1} :
         Call("set_attribute", <<shift, 1>>, set_attribute(self, shift, 1),
              NoGrid, NoLine)

ClearLine(A) ==
    /\ Alive
    /\ \E y \in A : Call("clear_line", <<y>>, clear_line(self, y), NoGrid, NoLine)

SetContinued(A) ==
    /\ Alive
    /\ \E y \in A, val \in BOOLEAN :
         Call("set_continued", <<y, val>>, set_continued(self, y, val), NoGrid, NoLine)

Index(A) ==
    /\ Ready("index")
    /\ \E top \in Same(A, 1), bottom \in Same(A, 2) :
         Call("index", <<top, bottom>>, Ok(linebuf_index(self, top, bottom)),
              NoGrid, NoLine)

ReverseIndex(A) ==
    /\ Ready("reverse_index")
    /\ \E top \in Same(A, 1), bottom \in Same(A, 2) :
         Call("reverse_index", <<top, bottom>>,
              Ok(linebuf_reverse_index(self, top, bottom)), NoGrid, NoLine)

InsertLines(A) ==
    /\ Ready("insert_lines")
    /\ \E num \in Same(A, 1), y \in Same(A, 2), bottom \in Same(A, 3) :
         Call("insert_lines", <<num, y, bottom>>,
              Ok(linebuf_insert_lines(self, num, y, bottom)), NoGrid, NoLine)

DeleteLines(A) ==
    /\ Ready("delete_lines")
    /\ \E num \in Same(A, 1), y \in Same(A, 2), bottom \in Same(A, 3) :
         Call("delete_lines", <<num, y, bottom>>,
              Ok(linebuf_delete_lines(self, num, y, bottom)), NoGrid, NoLine)

\* as_ansi with a callback or a chunk allocation that fails for row k (k = ynum:
\* nothing fails), or with row full filling the buffer (full = -1: no row does).
AsAnsi ==
    /\ Alive
    /\ \E kind \in {"emit", "alloc"}, k \in 0 .. self.ynum, full \in -1 .. self.ynum - 1 :
         /\ k = self.ynum \/ full = -1
         /\ kind = "emit" \/ k < self.ynum
         /\ LET r == as_ansi(self, <<kind, k>>, full)
            IN  Call("as_ansi", <<kind, k, full>>, r, NoGrid, r.value)

\* The destinations handed to rewrap: a buffer fresh from new, or one in use.
DestKinds == {"fresh"} \cup OtherKinds

Dest(kind, yn, xn) == IF kind = "fresh" THEN new(yn, xn, {}).obj ELSE Other(kind, yn, xn)

\* rewrap into a fresh destination of any row count and of one column less,
\* as many and one more than self, or into a used one of the size of self.
Rewrap ==
    /\ Alive
    /\ \E k \in DestKinds, yn \in 1 .. MaxRows,
          xn \in {self.xnum - 1, self.xnum, self.xnum + 1} \ {0} :
         /\ k = "fresh" \/ (yn = self.ynum /\ xn = self.xnum)
         /\ LET r == rewrap(self, Dest(k, yn, xn))
            IN  Call("rewrap", <<yn, xn, k>>, r, r.other, r.value)

CopyOld(maxrows) ==
    /\ Alive
    /\ \E k \in OtherKinds, yn \in 1 .. maxrows, xn \in {self.xnum, self.xnum + 1} :
         LET r == copy_old(self, Other(k, yn, xn))
         IN  Call("copy_old", <<yn, xn, k>>, r, r.other, NoLine)

\* The region operators and the calls that feed them content and flags.
Next ==
    \/ Clear({SPACE})
    \/ ClearLine(Args)
    \/ SetContinued(Args)
    \/ Index(Args)
    \/ ReverseIndex(Args)
    \/ InsertLines(Args)
    \/ DeleteLines(Args)
    \/ CopyOld(MaxRows)
    \/ CreateLineCopy(Args)
    \/ CopyLineTo(Args)
    \/ AsAnsi
    \/ Rewrap

Spec == Init /\ [][Next]_vars

\* Construction, destruction, the row views and the calls that can fail.
NextLife ==
    \/ New
    \/ Dealloc
    \/ Clear(Fills)
    \/ LineView
    \/ CreateLineCopy(LifeArgs)
    \/ CopyLineTo(LifeArgs)
    \/ SetAttribute
    \/ Index(LifeArgs)
    \/ CopyOld(LifeRows)

SpecLife == InitNone /\ [][NextLife]_vars

\* ------------------------------------------------------------ the claims
Identity(s) == [y \in Rows(s) |-> y]

\* The cells logical row y of s shows.
RowCells(s, y) == s.buf[s.line_map[y]]

\* The arguments of the last call.
Arg(k) == last.a[k]

\* top < bottom < rows: a range scrollUp/scrollDown act on.
ValidScroll(s, top, bottom) == top < bottom /\ bottom < s.ynum

\* y <= bottom < rows: a range insertRows/deleteRows act on.
ValidRange(s, y, bottom) == y <= bottom /\ bottom < s.ynum

\* C1: in every state reached from create by clear, scrollUp, scrollDown,
\* insertRows, deleteRows, clearRow, set_continued and copyOld with any
\* arguments, line_map is a bijection over [0, rows): every physical slot
\* appears at exactly one logical row.
C1_LineMapBijection ==
    /\ DOMAIN self.line_map = Rows(self)
    /\ \A p \in Rows(self) :
         Cardinality({y \in Rows(self) : self.line_map[y] = p}) = 1

\* insertRows has shifted rows of a buffer whose map was already permuted,
\* and the map is neither what it was nor the identity.
C1_Witness ==
    /\ last.op = "insert_lines"
    /\ ValidRange(pre, Arg(2), Arg(3))
    /\ Arg(1) >= 1
    /\ pre.line_map # Identity(pre)
    /\ self.line_map # pre.line_map
    /\ self.line_map # Identity(self)

\* C2: scrollUp(top, bottom) followed by scrollDown(top, bottom), and
\* scrollDown followed by scrollUp, on top < bottom < rows leave line_map and
\* continued_map as they were before the two calls.
C2_ScrollInverse ==
    (/\ last.after # ""
     /\ last.op \in {"index", "reverse_index"}
     /\ ValidScroll(orig, Arg(1), Arg(2)))
    => /\ self.line_map = orig.line_map
       /\ self.continued_map = orig.continued_map

\* scrollUp then scrollDown over a range has happened, the first call moved
\* rows and a set continuation flag.
C2_Witness ==
    /\ last.op = "reverse_index"
    /\ last.after = "index"
    /\ ValidScroll(orig, Arg(1), Arg(2))
    /\ pre.line_map # orig.line_map
    /\ pre.continued_map # orig.continued_map

\* The rows an insertRows(n, y, bottom) blanks: min(n, bottom - y + 1).
Clamped(n, y, bottom) == Min(n, bottom - y + 1)

\* C3: insertRows(n, y, bottom) followed by deleteRows(n, y, bottom), with
\* y <= bottom < rows and n >= 1, restores the line_map entry of every row the
\* insert shifted, and those rows show their original cells; rows outside
\* [y, bottom] keep their entry; only the physical slots that were at the
\* bottom min(n, bottom - y + 1) rows of the range differ in content.
C3_InsertDeleteIdentity ==
    (/\ last.op = "delete_lines"
     /\ last.after = "insert_lines"
     /\ Arg(1) >= 1
     /\ ValidRange(orig, Arg(2), Arg(3)))
    => LET y == Arg(2)
           bottom == Arg(3)
           n == Clamped(Arg(1), y, bottom)
           blanked == {orig.line_map[i] : i \in bottom - n + 1 .. bottom}
       IN  /\ \A i \in Rows(orig) :
                (i < y \/ i > bottom \/ i <= bottom - n)
                => /\ self.line_map[i] = orig.line_map[i]
                   /\ (i >= y /\ i <= bottom => RowCells(self, i) = RowCells(orig, i))
           /\ \A p \in Rows(orig) \ blanked : self.buf[p] = orig.buf[p]

\* insertRows then deleteRows has happened on a range where one written row
\* was shifted and another written row was blanked.
C3_Witness ==
    /\ last.op = "delete_lines"
    /\ last.after = "insert_lines"
    /\ Arg(1) >= 1
    /\ ValidRange(orig, Arg(2), Arg(3))
    /\ Arg(1) < Arg(3) - Arg(2) + 1
    /\ RowCells(orig, Arg(2)) # RowOf(orig.xnum, BlankCell(SPACE))
    /\ RowCells(orig, Arg(3)) # RowOf(orig.xnum, BlankCell(SPACE))
    /\ RowCells(self, Arg(3)) = RowOf(orig.xnum, BlankCell(SPACE))
    /\ orig.line_map # Identity(orig)

\* The ranges each region operator ignores.
InvalidCall ==
    \/ /\ last.op \in {"index", "reverse_index"}
       /\ (Arg(1) >= pre.ynum - 1 \/ Arg(2) >= pre.ynum \/ Arg(2) <= Arg(1))
    \/ /\ last.op = "insert_lines"
       /\ (Arg(2) >= pre.ynum \/ Arg(2) > Arg(3) \/ Arg(3) >= pre.ynum)
    \/ /\ last.op = "delete_lines"
       /\ (Arg(1) < 1 \/ Arg(2) >= pre.ynum \/ Arg(2) > Arg(3) \/ Arg(3) >= pre.ynum)

\* C4: a region operator called with an invalid range reports no error and
\* leaves line_map, continued_map and every cell unchanged.
C4_InvalidRangeNoOp ==
    InvalidCall
    => /\ last.err = ""
       /\ self.line_map = pre.line_map
       /\ self.continued_map = pre.continued_map
       /\ self.buf = pre.buf

\* deleteRows with count 0 on an otherwise valid range has been ignored, on a
\* buffer holding a set flag at the top of the range and written cells.
C4_Witness ==
    /\ last.op = "delete_lines"
    /\ Arg(1) = 0
    /\ ValidRange(pre, Arg(2), Arg(3))
    /\ pre.continued_map[Arg(2)]
    /\ \E y \in Rows(pre) : pre.buf[y] # RowOf(pre.xnum, BlankCell(SPACE))
    /\ pre.line_map # Identity(pre)

\* C5 (as claimed): insertRows(count, y, bottom) with y <= bottom < rows
\* leaves every logical row strictly outside [y, bottom] untouched: its
\* line_map entry, its continuation flag and its cells.
C5_InsertFrame ==
    (/\ last.op = "insert_lines"
     /\ ValidRange(pre, Arg(2), Arg(3)))
    => \A i \in Rows(pre) :
         (i < Arg(2) \/ i > Arg(3))
         => /\ self.line_map[i] = pre.line_map[i]
            /\ self.continued_map[i] = pre.continued_map[i]
            /\ RowCells(self, i) = RowCells(pre, i)

\* The flag insertRows leaves at the bottom of its range: false when the
\* blanked rows reach the last or the last but one row of the range, else the
\* flag of the row shifted into it.
InsertBottomFlag(s, num, y, bottom) ==
    IF Clamped(num, y, bottom) >= bottom - y THEN FALSE
    ELSE s.continued_map[bottom - Clamped(num, y, bottom)]

\* Whether the last call was a region operator that took effect.
TookEffect ==
    \/ /\ last.op \in {"index", "reverse_index"}
       /\ ValidScroll(pre, Arg(1), Arg(2))
    \/ /\ last.op \in {"insert_lines", "delete_lines"}
       /\ Arg(1) >= 1
       /\ ValidRange(pre, Arg(2), Arg(3))

\* The top and the bottom of the range of the last region operator.
RangeTop == IF last.op \in {"index", "reverse_index"} THEN Arg(1) ELSE Arg(2)
RangeBottom == IF last.op \in {"index", "reverse_index"} THEN Arg(2) ELSE Arg(3)

\* C6 (as claimed): after scrollUp, scrollDown, insertRows or deleteRows takes
\* effect on a valid range, the rows now at the top and at the bottom of the
\* range both have continuation flag false.
C6_EdgeFlagsReset ==
    TookEffect
    => /\ ~self.continued_map[RangeTop]
       /\ ~self.continued_map[RangeBottom]

\* C6 (amended): deleteRows leaves the flags at the top and the bottom of its
\* range false; insertRows leaves the flag at the top false and the flag at
\* the bottom false or carried with the row shifted there; scrollUp and
\* scrollDown do not reset flags but rotate them with the rows.
C6_EdgeFlags ==
    TookEffect
    => LET top == RangeTop
           bottom == RangeBottom
       IN  CASE last.op = "delete_lines" ->
                  ~self.continued_map[top] /\ ~self.continued_map[bottom]
             [] last.op = "insert_lines" ->
                  /\ ~self.continued_map[top]
                  /\ self.continued_map[bottom]
                       = InsertBottomFlag(pre, Arg(1), top, bottom)
             [] last.op = "index" ->
                  /\ self.continued_map[bottom] = pre.continued_map[top]
                  /\ self.continued_map[top] = pre.continued_map[top + 1]
             [] last.op = "reverse_index" ->
                  /\ self.continued_map[top] = pre.continued_map[bottom]
                  /\ self.continued_map[bottom] = pre.continued_map[bottom - 1]

\* insertRows has shifted a continued row onto the row just above the bottom
\* of its range and the bottom row's flag came out false.
C6_Witness ==
    /\ last.op = "insert_lines"
    /\ Arg(1) >= 1
    /\ ValidRange(pre, Arg(2), Arg(3))
    /\ Clamped(Arg(1), Arg(2), Arg(3)) = Arg(3) - Arg(2)
    /\ pre.continued_map[Arg(2)]
    /\ ~self.continued_map[Arg(3)]

\* C7: after a successful create, and after clear(ch) called in any state,
\* every cell holds the fill character (space for create) with width 1 and
\* zero attributes and colors, every continuation flag is false and line_map
\* is the identity.
C7_ClearNormalises ==
    ((last.op = "new" /\ last.err = "") \/ last.op = "clear")
    => LET fill == IF last.op = "new" THEN SPACE ELSE Arg(1)
       IN  /\ self.ynum > 0
           /\ \A y \in Rows(self) : \A x \in Cols(self) :
                self.buf[y][x] = BlankCell(fill)
           /\ \A y \in Rows(self) : ~self.continued_map[y]
           /\ self.line_map = Identity(self)

\* clear with a non-blank fill has acted on a scrolled buffer holding a set
\* flag and a written, struck-through cell.
C7_Witness ==
    /\ last.op = "clear"
    /\ Arg(1) # SPACE
    /\ pre.line_map # Identity(pre)
    /\ \E y \in Rows(pre) : pre.continued_map[y]
    /\ \E y \in Rows(pre) : \E x \in Cols(pre) :
         /\ pre.buf[y][x].fg_colors # 0
         /\ pre.buf[y][x].attrs > WIDTH_MASK

\* C8 (as claimed): copyInto with logicalRow >= rows fails with OutOfBounds
\* and leaves the destination view unchanged.
C8_CopyIntoBounds ==
    (last.op = "copy_line_to" /\ Arg(1) >= pre.ynum)
    => /\ last.err \in {"ValueError", "IndexError"}
       /\ ret = DestLine(pre.xnum)

\* The calls that are rejected, with the exception each must report.
Rejected ==
    \/ /\ last.op = "new"
       /\ (Arg(2) > MAX_XNUM \/ Arg(1) > MAX_YNUM \/ Arg(1) = 0 \/ Arg(2) = 0)
       /\ last.err = "ValueError"
    \/ /\ last.op = "line"
       /\ Arg(1) >= pre.ynum
       /\ last.err = "IndexError"
    \/ /\ last.op = "create_line_copy"
       /\ Arg(1) >= pre.ynum
       /\ last.err = "ValueError"
    \/ /\ last.op = "copy_old"
       /\ Arg(2) # pre.xnum
       /\ last.err = "ValueError"
    \/ /\ last.op = "set_attribute"
       /\ (Arg(1) < DECORATION_SHIFT \/ Arg(1) > STRIKE_SHIFT)
       /\ last.err = "ValueError"

\* The calls of C9 whose arguments are invalid.
BadArguments ==
    \/ /\ last.op = "new"
       /\ (Arg(2) > MAX_XNUM \/ Arg(1) > MAX_YNUM \/ Arg(1) = 0 \/ Arg(2) = 0)
    \/ last.op \in {"line", "create_line_copy"} /\ Arg(1) >= pre.ynum
    \/ last.op = "copy_old" /\ Arg(2) # pre.xnum
    \/ /\ last.op = "set_attribute"
       /\ (Arg(1) < DECORATION_SHIFT \/ Arg(1) > STRIKE_SHIFT)

\* C9: every rejected call (create with a zero or over-limit dimension,
\* bindLive and snapshot with logicalRow >= rows, copyOld with differing
\* column counts, setAttribute with an unrecognized shift) reports its error
\* and leaves line_map, continued_map, the cells and the live view binding of
\* every buffer involved as they were; a rejected create produces no buffer.
C9_ValidateBeforeMutate ==
    BadArguments
    => /\ Rejected
       /\ self = pre
       /\ ret = NoLine
       /\ last.op = "new" => self = NoGrid /\ heap = NoHeap
       /\ last.op = "copy_old" => last.other \in Others(pre, LifeRows)

\* setAttribute with a shift just above the recognized range was rejected on
\* a scrolled buffer with a bound live view, a set flag and a written cell.
C9_Witness ==
    /\ last.op = "set_attribute"
    /\ Arg(1) = STRIKE_SHIFT + 1
    /\ last.err = "ValueError"
    /\ pre.line.slot >= 0
    /\ pre.line_map # Identity(pre)
    /\ \E y \in Rows(pre) : pre.continued_map[y]
    /\ \E y \in Rows(pre) : \E x \in Cols(pre) : pre.buf[y][x].fg_colors # 0

\* C10 (as claimed): when an allocation of create fails, create reports
\* OutOfMemory and every block that was allocated is released exactly once.
C10_ReleasedOnce ==
    (last.op = "new" /\ last.err = "MemoryError")
    => \A b \in Blocks :
         heap.released[b]
           = IF b \notin Arg(3) /\ "self" \notin Arg(3) THEN 1 ELSE 0

\* C14: copy_old(other) with equal column counts bottom-aligns other into
\* self: each of the min(rows) bottom logical rows of self ends with the cells
\* and the flag of the matching bottom logical row of other; line_map of self,
\* the logical rows of self above the copied block and other are unchanged.
C14_CopyOldBottomAligns ==
    (last.op = "copy_old" /\ Arg(2) = pre.xnum)
    => LET other == Other(Arg(3), Arg(1), Arg(2))
           n == Min(pre.ynum, other.ynum)
       IN  /\ last.err = ""
           /\ \A i \in 0 .. n - 1 :
                /\ RowCells(self, self.ynum - 1 - i)
                     = RowCells(other, other.ynum - 1 - i)
                /\ self.continued_map[self.ynum - 1 - i]
                     = other.continued_map[other.ynum - 1 - i]
           /\ self.line_map = pre.line_map
           /\ \A y \in 0 .. pre.ynum - 1 - n :
                /\ RowCells(self, y) = RowCells(pre, y)
                /\ self.continued_map[y] = pre.continued_map[y]
           /\ last.other = other

\* copy_old has copied a smaller, scrolled buffer with a set flag into a
\* scrolled buffer whose rows above the copied block were written and flagged.
C14_Witness ==
    /\ last.op = "copy_old"
    /\ last.err = ""
    /\ Arg(3) = "scrolled"
    /\ 1 < Arg(1) /\ Arg(1) < pre.ynum
    /\ pre.line_map # Identity(pre)
    /\ pre.continued_map[0]
    /\ RowCells(pre, 0) # RowOf(pre.xnum, BlankCell(SPACE))
    /\ \E y \in Rows(self) : y > 0 /\ self.continued_map[y]
    /\ self # pre

\* A row of blanks of the width of s.
BlankRow(s) == RowOf(s.xnum, BlankCell(SPACE))

\* C18: after insertRows(count, y, bottom) with y <= bottom < rows and
\* count >= 1, n = min(count, bottom - y + 1): logical rows [y, y+n) are blank
\* with flag false and occupy, in the same order, the physical slots that were
\* at logical rows [bottom-n+1, bottom]; each logical row i in [y+n, bottom]
\* holds the slot and the cells logical row i-n held before.
C18_InsertShifts ==
    (/\ last.op = "insert_lines"
     /\ Arg(1) >= 1
     /\ ValidRange(pre, Arg(2), Arg(3)))
    => LET y == Arg(2)
           bottom == Arg(3)
           n == Clamped(Arg(1), y, bottom)
       IN  /\ \A k \in 0 .. n - 1 :
                /\ RowCells(self, y + k) = BlankRow(self)
                /\ ~self.continued_map[y + k]
                /\ self.line_map[y + k] = pre.line_map[bottom - n + 1 + k]
           /\ \A i \in y + n .. bottom :
                /\ self.line_map[i] = pre.line_map[i - n]
                /\ RowCells(self, i) = RowCells(pre, i - n)

\* insertRows has shifted a written row down and blanked two rows that were
\* written and flagged, on a scrolled buffer.
C18_Witness ==
    /\ last.op = "insert_lines"
    /\ ValidRange(pre, Arg(2), Arg(3))
    /\ Clamped(Arg(1), Arg(2), Arg(3)) = 2
    /\ Arg(3) - Arg(2) = 2
    /\ pre.line_map # Identity(pre)
    /\ \A i \in Arg(2) .. Arg(3) : RowCells(pre, i) # BlankRow(pre)
    /\ pre.continued_map[Arg(3)]
    /\ RowCells(self, Arg(3)) # BlankRow(self)

\* C19: after deleteRows(count, y, bottom) with y <= bottom < rows and
\* count >= 1, n = min(count, bottom - y + 1): each logical row i in
\* [y, bottom-n] holds the slot and the cells logical row i+n held before;
\* logical rows [bottom-n+1, bottom] are blank with flag false and occupy the
\* slots formerly at [y, y+n); every logical row outside [y, bottom] keeps its
\* line_map entry, its flag and its cells.
C19_DeleteShifts ==
    (/\ last.op = "delete_lines"
     /\ Arg(1) >= 1
     /\ ValidRange(pre, Arg(2), Arg(3)))
    => LET y == Arg(2)
           bottom == Arg(3)
           n == Clamped(Arg(1), y, bottom)
       IN  /\ \A i \in y .. bottom - n :
                /\ self.line_map[i] = pre.line_map[i + n]
                /\ RowCells(self, i) = RowCells(pre, i + n)
           /\ \A i \in bottom - n + 1 .. bottom :
                /\ RowCells(self, i) = BlankRow(self)
                /\ ~self.continued_map[i]
           /\ {self.line_map[i] : i \in bottom - n + 1 .. bottom}
                = {pre.line_map[i] : i \in y .. y + n - 1}
           /\ \A i \in Rows(pre) :
                (i < y \/ i > bottom)
                => /\ self.line_map[i] = pre.line_map[i]
                   /\ self.continued_map[i] = pre.continued_map[i]
                   /\ RowCells(self, i) = RowCells(pre, i)

\* deleteRows has removed one written, flagged row of a range that ends above
\* the last row, slid a written row up, and the row below the range is
\* written and flagged, on a scrolled buffer.
C19_Witness ==
    /\ last.op = "delete_lines"
    /\ Arg(1) = 1
    /\ Arg(2) < Arg(3)
    /\ Arg(3) + 1 < pre.ynum
    /\ pre.line_map # Identity(pre)
    /\ \A i \in Arg(2) .. Arg(3) + 1 :
         RowCells(pre, i) # BlankRow(pre) /\ pre.continued_map[i]
    /\ RowCells(self, Arg(2)) # BlankRow(self)

\* C17: for every logicalRow < rows, create_line_copy(logicalRow) and
\* copy_line_to(logicalRow, dest) yield the same cells and flag: the five
\* column arrays of physical slot line_map[logicalRow] and the continuation
\* flag of logicalRow; neither call changes the buffer.
C17_CopiesAgree ==
    (last.op \in {"create_line_copy", "copy_line_to"} /\ Arg(1) < pre.ynum)
    => /\ last.err = ""
       /\ ret.cells = pre.buf[pre.line_map[Arg(1)]]
       /\ ret.continued = pre.continued_map[Arg(1)]
       /\ ret.xnum = pre.xnum
       /\ ret.ynum = Arg(1)
       /\ self = pre

\* A written, flagged row whose slot differs from its index was copied, while
\* the row stored at that index is blank.
C17_CopiedRow ==
    /\ Arg(1) < pre.ynum
    /\ pre.line_map[Arg(1)] # Arg(1)
    /\ pre.continued_map[Arg(1)]
    /\ RowCells(pre, Arg(1)) # BlankRow(pre)
    /\ pre.buf[Arg(1)] = BlankRow(pre)
    /\ ret.cells = RowCells(pre, Arg(1))

\* create_line_copy has copied such a row.
C17_Witness ==
    /\ last.op = "create_line_copy"
    /\ C17_CopiedRow

\* copy_line_to has copied such a row.
C17_WitnessCopyLineTo ==
    /\ last.op = "copy_line_to"
    /\ C17_CopiedRow

\* The flag as_ansi reads for logical row i of s: the flag of the next row, or
\* the row's own flag for the last row.
NextContinues(s, i) ==
    IF i < s.ynum - 1 THEN s.continued_map[i + 1] ELSE s.continued_map[i]

\* C15: as_ansi calls the callback once per logical row, in the order 0, 1,
\* ..., rows-1, each time with the rendering of physical slot line_map[row];
\* when a call of the callback fails, no call is made for a later row and
\* the failure is propagated.  (A chunk that cannot be allocated ends the
\* loop with MemoryError before its call.)
C15_EmitPerRow ==
    last.op = "as_ansi"
    => LET n == pre.ynum
           k == Arg(2)
           calls == IF k >= n THEN n ELSE IF Arg(1) = "emit" THEN k + 1 ELSE k
       IN  /\ Len(ret) = calls
           /\ \A i \in 0 .. calls - 1 :
                ret[i + 1].cells = line_as_ansi(pre, pre.line_map[i], TRUE).cells
           /\ last.err = IF k >= n THEN ""
                         ELSE IF Arg(1) = "emit" THEN "CallbackError"
                         ELSE "MemoryError"

\* The callback failed on a row that is neither the first nor the last, in a
\* scrolled buffer whose rows differ.
C15_Witness ==
    /\ last.op = "as_ansi"
    /\ Arg(1) = "emit"
    /\ 0 < Arg(2) /\ Arg(2) < pre.ynum - 1
    /\ last.err = "CallbackError"
    /\ pre.line_map # Identity(pre)
    /\ RowCells(pre, 0) # RowCells(pre, 1)
    /\ Len(ret) = Arg(2) + 1

\* C16 (as claimed): the chunk as_ansi emits for logical row i ends with a
\* newline exactly when the next row does not continue it (for the last row:
\* when its own flag is false).
C16_NewlineUnlessContinued ==
    last.op = "as_ansi"
    => \A i \in 0 .. Len(ret) - 1 :
         ret[i + 1].newline = ~NextContinues(pre, i)

\* C16 (amended): the chunk for logical row i ends with a newline exactly
\* when the next row does not continue it (for the last row: its own flag is
\* false) and the rendering of the row left room in the output buffer.
C16_NewlineIfRoom ==
    last.op = "as_ansi"
    => \A i \in 0 .. Len(ret) - 1 :
         ret[i + 1].newline = (~NextContinues(pre, i) /\ i # Arg(3))

\* A run over three rows without failure: the first row is continued by the
\* second and got no newline, the second got one, and the last, whose own
\* flag is false, filled the buffer and got none.
C16_Witness ==
    /\ last.op = "as_ansi"
    /\ last.err = ""
    /\ pre.ynum = 3
    /\ Arg(3) = 2
    /\ pre.continued_map[1] /\ ~pre.continued_map[2]
    /\ ~ret[1].newline /\ ret[2].newline /\ ~ret[3].newline

\* The destination of the last rewrap as it was before the call.
DestBefore == Dest(Arg(3), Arg(1), Arg(2))

\* The destination of the last rewrap has the rows and columns of the source.
SameSize == Arg(1) = pre.ynum /\ Arg(2) = pre.xnum

\* Every cell of s holds a space, whatever its attributes and colors.
AllSpace(s) == \A y \in Rows(s) : \A x \in Cols(s) : s.buf[y][x].ch = SPACE

\* C11: rewrap into a destination with the rows and columns of the source
\* makes the destination's line_map, continued_map and cells equal to the
\* source's, pushes no row to the history sink, leaves the source unchanged
\* and returns -1.
C11_FastPathCopies ==
    (last.op = "rewrap" /\ SameSize)
    => /\ last.other.line_map = pre.line_map
       /\ last.other.continued_map = pre.continued_map
       /\ last.other.buf = pre.buf
       /\ ret.pushed = <<>>
       /\ self = pre
       /\ ret.cursor_y = -1

\* A scrolled source with a set flag and a written row was rewrapped into a
\* used destination of the same size that differed from it in line_map,
\* flags and cells.
C11_Witness ==
    /\ last.op = "rewrap"
    /\ SameSize
    /\ pre.ynum > 1
    /\ pre.line_map # Identity(pre)
    /\ \E y \in Rows(pre) : pre.continued_map[y]
    /\ \E y \in Rows(pre) : pre.buf[y] # BlankRow(pre)
    /\ DestBefore.line_map # pre.line_map
    /\ DestBefore.continued_map # pre.continued_map
    /\ DestBefore.buf # pre.buf
    /\ last.other.buf = pre.buf

\* C12 (as claimed): rewrap of a source whose every cell is a space returns
\* cursor row 0, leaves the destination as it was and pushes nothing to the
\* history sink, for every destination size.
C12_BlankSourceAnySize ==
    (last.op = "rewrap" /\ AllSpace(pre))
    => /\ ret.cursor_y = 0
       /\ last.other = DestBefore
       /\ ret.pushed = <<>>

\* C12 (amended): rewrap of a source whose every cell is a space into a
\* destination whose rows or columns differ from the source's returns cursor
\* row 0, leaves the destination as it was and pushes nothing to the history
\* sink.
C12_BlankSourceOtherSize ==
    (last.op = "rewrap" /\ AllSpace(pre) /\ ~SameSize)
    => /\ ret.cursor_y = 0
       /\ last.other = DestBefore
       /\ ret.pushed = <<>>

\* A blank source of several rows, scrolled and with a set flag, was
\* rewrapped into a fresh destination with more rows and more columns.
C12_Witness ==
    /\ last.op = "rewrap"
    /\ AllSpace(pre)
    /\ pre.ynum > 1
    /\ Arg(1) > pre.ynum /\ Arg(2) > pre.xnum
    /\ Arg(3) = "fresh"
    /\ pre.line_map # Identity(pre)
    /\ \E y \in Rows(pre) : pre.continued_map[y]
    /\ ret.cursor_y = 0

\* The logical lines of s without the empty lines at the end.
RECURSIVE DropEmptyTail(_)
DropEmptyTail(lines) ==
    IF Len(lines) > 0 /\ lines[Len(lines)] = <<>>
    THEN DropEmptyTail(SubSeq(lines, 1, Len(lines) - 1))
    ELSE lines

LogicalText(s) == DropEmptyTail(src_lines(s, 0, s.ynum, <<>>, <<>>))

\* The number of rows the logical text of s takes at width w.
RowsAtWidth(s, w) == Len(split_lines(LogicalText(s), 1, w))

\* C13 (as claimed): when the source holds a non-space character and its
\* content fits the destination at the new width, rewrap into a fresh
\* destination of a different size pushes no row to the history sink and the
\* logical text of the destination equals the logical text of the source; the
\* destination is not left blank.
C13_ReflowKeepsText ==
    (/\ last.op = "rewrap"
     /\ ~SameSize
     /\ Arg(3) = "fresh"
     /\ ~AllSpace(pre)
     /\ RowsAtWidth(pre, Arg(2)) <= Arg(1))
    => /\ ret.pushed = <<>>
       /\ LogicalText(last.other) = LogicalText(pre)
       /\ ~AllSpace(last.other)

\* The largest logical row of s that shows a non-space character.
LastTextRow(s) ==
    CHOOSE y \in Rows(s) :
      /\ \E x \in Cols(s) : RowCells(s, y)[x].ch # SPACE
      /\ \A z \in Rows(s) : z > y => \A x \in Cols(s) : RowCells(s, z)[x].ch = SPACE

\* C20 (as claimed): on the general path of rewrap the number of rows handed
\* to the re-flow is L + 1, L the largest logical row that, read through
\* line_map, holds a non-space character.
C20_ScanLogicalRows ==
    (last.op = "rewrap" /\ ~SameSize /\ ~AllSpace(pre))
    => ret.handed = LastTextRow(pre) + 1

\* The logical rows the last insertRows or deleteRows blanked: the first rows of
\* the range for insertRows, the last rows of the range for deleteRows.
BlankedRows ==
    LET n == Clamped(Arg(1), Arg(2), Arg(3))
    IN  IF last.op = "insert_lines" THEN Arg(2) .. Arg(2) + n - 1
        ELSE Arg(3) - n + 1 .. Arg(3)

====
